---- MODULE Spec2Model ----
(***************************************************************************)
(* Procedural-memory server (src/src/server.ts): the in-memory procedure   *)
(* store and the tool handlers save_procedure, get_review_queue,           *)
(* mark_reviewed and delay_review, with the JavaScript Date arithmetic     *)
(* they rely on.                                                           *)
(*                                                                         *)
(* Time values are counted in whole hours since 1970-01-01T00:00Z (a       *)
(* millisecond count exceeds TLC's 32-bit integers); a calendar date       *)
(* string "YYYY-MM-DD" is the tuple <<y, m, d>>.                           *)
(***************************************************************************)
EXTENDS Integers, Sequences, FiniteSets, TLC

\* ------------------------------------------------------------------ bounds
\* number of clock advances the model follows (the clock has MaxTicks + 1 readings)
MaxTicks == 1
\* number of tool invocations the model follows
MaxCalls == 4
MaxExtracts == 3

\* --------------------------------------------------------- JavaScript Date
HoursPerDay == 24

\* Day number (days since 1970-01-01) of the civil date y-m-d; d may lie
\* outside the month, as in MakeDay.
DaysFromCivil(y, m, d) ==
  LET yy  == IF m <= 2 THEN y - 1 ELSE y
      era == yy \div 400
      yoe == yy - era * 400
      mp  == (m + 9) % 12
      doy == (153 * mp + 2) \div 5 + d - 1
      doe == yoe * 365 + yoe \div 4 - yoe \div 100 + doy
  IN  era * 146097 + doe - 719468

\* Civil date <<y, m, d>> of a day number (YearFromTime, MonthFromTime,
\* DateFromTime).
CivilFromDays(z) ==
  LET zz  == z + 719468
      era == zz \div 146097
      doe == zz - era * 146097
      yoe == (doe - doe \div 1460 + doe \div 36524 - doe \div 146096) \div 365
      doy == doe - (365 * yoe + yoe \div 4 - yoe \div 100)
      mp  == (5 * doy + 2) \div 153
      d   == doy - (153 * mp + 2) \div 5 + 1
      m   == IF mp < 10 THEN mp + 3 ELSE mp - 9
      y   == yoe + era * 400 + (IF m <= 2 THEN 1 ELSE 0)
  IN  <<y, m, d>>

\* Time value of the instant y-m-d h:00 UTC.
UtcHour(y, m, d, h) == DaysFromCivil(y, m, d) * HoursPerDay + h

\* Host time zones the server may run in.
TimeZones == {"UTC", "America/New_York"}

\* Standard-time offset of a zone from UTC, in hours.
StdOffset(zone) == IF zone = "America/New_York" THEN -5 ELSE 0

\* Daylight-saving periods of a zone as <<first instant, first instant after>>.
DstPeriods(zone) ==
  IF zone = "America/New_York"
  THEN {<<UtcHour(2024, 3, 10, 7), UtcHour(2024, 11, 3, 6)>>,
        <<UtcHour(2025, 3, 9, 7), UtcHour(2025, 11, 2, 6)>>}
  ELSE {}

\* LocalTZA(t, isUTC): the zone's offset at the UTC instant t (isUTC) or at
\* the local wall-clock value t (~isUTC; a skipped or repeated wall-clock
\* value is read with the offset in force before the transition).
LocalTZA(zone, t, isUTC) ==
  LET s == StdOffset(zone)
  IN  IF isUTC
      THEN IF \E p \in DstPeriods(zone) : p[1] <= t /\ t < p[2]
           THEN s + 1 ELSE s
      ELSE IF \E p \in DstPeriods(zone) : p[1] + s + 1 <= t /\ t < p[2] + s + 1
           THEN s + 1 ELSE s

\* new Date("YYYY-MM-DD"): a date-only string is parsed as UTC midnight.
ParseDate(date) == UtcHour(date[1], date[2], date[3], 0)

\* d.setDate(d.getDate() + n), evaluated in the host's local time.
AddLocalDays(zone, t, n) ==
  LET local  == t + LocalTZA(zone, t, TRUE)
      ymd    == CivilFromDays(local \div HoursPerDay)
      hour   == local % HoursPerDay
      newDay == DaysFromCivil(ymd[1], ymd[2], ymd[3] + n)
      wall   == newDay * HoursPerDay + hour
  IN  wall - LocalTZA(zone, wall, FALSE)

\* d.toISOString().split('T')[0]: the UTC calendar date of a time value.
IsoDate(t) == CivilFromDays(t \div HoursPerDay)

\* d.toISOString(): <<y, m, d, h>> of a time value.
IsoString(t) == IsoDate(t) \o <<t % HoursPerDay>>


\* ------------------------------------------------------ algorithm templates
algorithmSchedules ==
  [motor |->
     << [day |-> 1,   label |-> "Day 1: Initial Learning"],
        [day |-> 2,   label |-> "Day 2: Practice"],
        [day |-> 3,   label |-> "Day 3: Practice"],
        [day |-> 4,   label |-> "Day 4: Alternate Practice"],
        [day |-> 6,   label |-> "Day 6: Alternate Practice"],
        [day |-> 10,  label |-> "Day 10: Bi-weekly Practice"],
        [day |-> 14,  label |-> "Day 14: Bi-weekly Practice"],
        [day |-> 21,  label |-> "Week 3: Weekly Maintenance"],
        [day |-> 28,  label |-> "Week 4: Weekly Maintenance"],
        [day |-> 35,  label |-> "Week 5: Weekly Maintenance"],
        [day |-> 42,  label |-> "Week 6: Weekly Maintenance"],
        [day |-> 56,  label |-> "Month 2: Bi-weekly"],
        [day |-> 70,  label |-> "Month 2.5: Bi-weekly"],
        [day |-> 84,  label |-> "Month 3: Bi-weekly"],
        [day |-> 112, label |-> "Month 4: Monthly"],
        [day |-> 140, label |-> "Month 5: Monthly"],
        [day |-> 168, label |-> "Month 6: Monthly"],
        [day |-> 365, label |-> "Year 1: Monthly"] >>,
   cognitive |->
     << [day |-> 1,   label |-> "Day 1: Initial Learning"],
        [day |-> 2,   label |-> "Day 2: Critical Review"],
        [day |-> 3,   label |-> "Day 3: Spaced Practice"],
        [day |-> 5,   label |-> "Day 5: Spaced Practice"],
        [day |-> 8,   label |-> "Day 8: Spaced Practice"],
        [day |-> 14,  label |-> "Day 14: Consolidation"],
        [day |-> 21,  label |-> "Day 21: Consolidation"],
        [day |-> 28,  label |-> "Week 4: Weekly Practice"],
        [day |-> 35,  label |-> "Week 5: Weekly Practice"],
        [day |-> 42,  label |-> "Week 6: Weekly Practice"],
        [day |-> 49,  label |-> "Week 7: Weekly Practice"],
        [day |-> 63,  label |-> "Month 2: Bi-weekly"],
        [day |-> 77,  label |-> "Month 2.5: Bi-weekly"],
        [day |-> 91,  label |-> "Month 3: Bi-weekly"],
        [day |-> 120, label |-> "Month 4: Monthly"],
        [day |-> 150, label |-> "Month 5: Monthly"],
        [day |-> 180, label |-> "Month 6: Monthly"],
        [day |-> 240, label |-> "Month 8: Extended"] >>]

Algorithms == {"motor", "cognitive"}

\* calculateReviewDates(startDate, algorithm) on a host in time zone `zone`.
calculateReviewDates(zone, startDate, algorithm) ==
  LET schedule == algorithmSchedules[algorithm]
  IN  [k \in 1..Len(schedule) |->
         [date      |-> IsoDate(AddLocalDays(zone, startDate, schedule[k].day - 1)),
          label     |-> schedule[k].label,
          completed |-> FALSE]]

\* ------------------------------------------------------------------- store
\* The Map `procedures`: its entries in insertion order.

\* Position of the entry with key id, 0 when the key is absent.
MapIndex(procs, id) ==
  IF \E k \in 1..Len(procs) : procs[k].id = id
  THEN CHOOSE k \in 1..Len(procs) : procs[k].id = id
  ELSE 0

\* procedures.get(id) !== undefined
MapHas(procs, id) == MapIndex(procs, id) # 0

\* procedures.get(id), for a key that is present
MapGet(procs, id) == procs[MapIndex(procs, id)]

\* procedures.set(id, procedure): an existing key keeps its position and
\* has its value replaced, a new key is appended.
MapSet(procs, id, procedure) ==
  IF MapHas(procs, id)
  THEN [procs EXCEPT ![MapIndex(procs, id)] = procedure]
  ELSE Append(procs, procedure)

\* array[index] for an integer index: the element, or undefined (<<>>).
ElementAt(array, index) ==
  IF index >= 0 /\ index < Len(array) THEN <<array[index + 1]>> ELSE <<>>

\* ---------------------------------------------------------------- responses
\* What a handler invocation produced: the arguments it was called with
\* (op, procedureId, reviewIndex, date), the JSON body it returned, or
\* raised = TRUE when the handler threw instead of returning.  wasCompleted
\* is an observation for the properties, not part of the body: whether the
\* addressed review was already completed when mark_reviewed started.
NoResponse ==
  [op |-> "none", procedureId |-> "", reviewIndex |-> 0, date |-> <<>>,
   raised |-> FALSE, success |-> FALSE, error |-> "", wasCompleted |-> FALSE,
   completedReview |-> <<>>, nextReview |-> <<>>, newDate |-> <<>>,
   firstReviewDate |-> <<>>, items |-> <<>>, itemCount |-> 0]

\* ----------------------------------------------------------- save_procedure
\* The record the handler builds from its arguments and the clock reading.
NewProcedure(zone, now, title, steps, algorithm) ==
  [id          |-> ToString(now),
   title       |-> title,
   steps       |-> steps,
   algorithm   |-> algorithm,
   createdAt   |-> IsoString(now),
   currentStep |-> 0,
   reviewDates |-> calculateReviewDates(zone, now, algorithm)]

save_procedure(procs, zone, now, title, steps, algorithm) ==
  LET procedure == NewProcedure(zone, now, title, steps, algorithm)
  IN  [store    |-> MapSet(procs, procedure.id, procedure),
       response |-> [NoResponse EXCEPT
                       !.op = "save_procedure",
                       !.success = TRUE,
                       !.procedureId = procedure.id,
                       !.itemCount = Len(steps),
                       !.firstReviewDate = <<procedure.reviewDates[1].date>>]]

\* --------------------------------------------------------- get_review_queue
\* Variant: the completed flag is not tested.
RECURSIVE ProcedureItems_IgnoresCompleted(_, _, _)
ProcedureItems_IgnoresCompleted(procedure, date, from) ==
  IF from >= Len(procedure.reviewDates) THEN <<>>
  ELSE LET review == procedure.reviewDates[from + 1]
           rest   == ProcedureItems_IgnoresCompleted(procedure, date, from + 1)
       IN  IF review.date = date
           THEN <<[procedureId |-> procedure.id,
                   title       |-> procedure.title,
                   algorithm   |-> procedure.algorithm,
                   reviewIndex |-> from,
                   reviewLabel |-> review.label,
                   stepCount   |-> Len(procedure.steps)]>> \o rest
           ELSE rest

\* The items one procedure contributes, scanning its schedule from index
\* `from` (0-based) upwards.
RECURSIVE ProcedureItems(_, _, _)
ProcedureItems(procedure, date, from) ==
  IF from >= Len(procedure.reviewDates) THEN <<>>
  ELSE LET review == procedure.reviewDates[from + 1]
           rest   == ProcedureItems(procedure, date, from + 1)
       IN  IF review.date = date /\ ~review.completed
           THEN <<[procedureId |-> procedure.id,
                   title       |-> procedure.title,
                   algorithm   |-> procedure.algorithm,
                   reviewIndex |-> from,
                   reviewLabel |-> review.label,
                   stepCount   |-> Len(procedure.steps)]>> \o rest
           ELSE rest

\* Variant: the procedures are visited last to first.
RECURSIVE ReviewItems_Reversed(_, _, _)
ReviewItems_Reversed(procs, date, k) ==
  IF k > Len(procs) THEN <<>>
  ELSE ReviewItems_Reversed(procs, date, k + 1) \o ProcedureItems(procs[k], date, 0)

\* procedures.forEach(...) from position k: the items of all procedures in
\* insertion order.
RECURSIVE ReviewItems(_, _, _)
ReviewItems(procs, date, k) ==
  IF k > Len(procs) THEN <<>>
  ELSE ProcedureItems(procs[k], date, 0) \o ReviewItems(procs, date, k + 1)

get_review_queue(procs, date) ==
  LET reviewItems == ReviewItems(procs, date, 1)
  IN  [store    |-> procs,
       response |-> [NoResponse EXCEPT
                       !.op = "get_review_queue",
                       !.success = TRUE,
                       !.date = date,
                       !.itemCount = Len(reviewItems),
                       !.items = reviewItems]]

\* ------------------------------------------------------------ mark_reviewed
\* The early return of mark_reviewed and delay_review for an unknown id.
NotFound(op, procedureId, reviewIndex) ==
  [NoResponse EXCEPT !.op = op, !.procedureId = procedureId,
                     !.reviewIndex = reviewIndex,
                     !.success = FALSE, !.error = "Procedure not found"]

\* The early return of mark_reviewed for an index past the schedule's end.
InvalidIndex(op, procedureId, reviewIndex) ==
  [NoResponse EXCEPT !.op = op, !.procedureId = procedureId,
                     !.reviewIndex = reviewIndex,
                     !.success = FALSE, !.error = "Invalid review index"]

\* A handler that threw (a property access on undefined): nothing returned.
Raised(op, procedureId, reviewIndex) ==
  [NoResponse EXCEPT !.op = op, !.procedureId = procedureId,
                     !.reviewIndex = reviewIndex,
                     !.raised = TRUE, !.error = "TypeError"]

\* The guard of mark_reviewed on the index.
IndexRejected(reviewDates, reviewIndex) == reviewIndex >= Len(reviewDates)

\* Variant: currentStep only ever moves forward (highest marked index + 1).
NextStep_Highest(procedure, reviewIndex) ==
  IF procedure.currentStep > reviewIndex + 1
  THEN procedure.currentStep ELSE reviewIndex + 1

\* currentStep as mark_reviewed assigns it.
NextStep(procedure, reviewIndex) == reviewIndex + 1

\* Variant: the completed flag is toggled instead of set.
MarkProcedure_Toggle(procedure, reviewIndex) ==
  [procedure EXCEPT !.reviewDates[reviewIndex + 1].completed =
                       ~procedure.reviewDates[reviewIndex + 1].completed,
                    !.currentStep = reviewIndex + 1]

\* Variant: every review up to the index is completed.
MarkProcedure_UpTo(procedure, reviewIndex) ==
  [procedure EXCEPT
     !.reviewDates = [n \in 1..Len(procedure.reviewDates) |->
                        IF n <= reviewIndex + 1
                        THEN [procedure.reviewDates[n] EXCEPT !.completed = TRUE]
                        ELSE procedure.reviewDates[n]],
     !.currentStep = NextStep(procedure, reviewIndex)]

\* The two assignments of mark_reviewed.
MarkProcedure(procedure, reviewIndex) ==
  [procedure EXCEPT !.reviewDates[reviewIndex + 1].completed = TRUE,
                    !.currentStep = NextStep(procedure, reviewIndex)]

\* Variant: the first pending review at any index (the i > reviewIndex test
\* is dropped).
FindNextReview_AnyPending(reviewDates, reviewIndex) ==
  LET pending == {i \in 0..(Len(reviewDates) - 1) : ~reviewDates[i + 1].completed}
  IN  IF pending = {} THEN <<>>
      ELSE LET i == CHOOSE i \in pending : \A j \in pending : i <= j
           IN  <<[date |-> reviewDates[i + 1].date,
                  label |-> reviewDates[i + 1].label]>>

\* reviewDates.find((r, i) => i > reviewIndex && !r.completed)
FindNextReview(reviewDates, reviewIndex) ==
  LET later == {i \in 0..(Len(reviewDates) - 1) :
                  i > reviewIndex /\ ~reviewDates[i + 1].completed}
  IN  IF later = {} THEN <<>>
      ELSE LET i == CHOOSE i \in later : \A j \in later : i <= j
           IN  <<[date |-> reviewDates[i + 1].date,
                  label |-> reviewDates[i + 1].label]>>

\* Variant: the lookup result is not tested, so an unknown id makes the
\* handler throw on `procedure.reviewDates`.
mark_reviewed_Unchecked(procs, procedureId, reviewIndex) ==
  IF ~MapHas(procs, procedureId)
  THEN [store |-> procs,
        response |-> Raised("mark_reviewed", procedureId, reviewIndex)]
  ELSE LET procedure == MapGet(procs, procedureId)
       IN  IF ElementAt(procedure.reviewDates, reviewIndex) = <<>>
           THEN [store |-> procs,
                 response |-> InvalidIndex("mark_reviewed", procedureId, reviewIndex)]
           ELSE [store |-> MapSet(procs, procedureId, MarkProcedure(procedure, reviewIndex)),
                 response |-> [NoResponse EXCEPT
                    !.op = "mark_reviewed",
                    !.procedureId = procedureId,
                    !.reviewIndex = reviewIndex,
                    !.success = TRUE]]

mark_reviewed(procs, procedureId, reviewIndex) ==
  IF ~MapHas(procs, procedureId)
  THEN [store |-> procs,
        response |-> NotFound("mark_reviewed", procedureId, reviewIndex)]
  ELSE LET procedure == MapGet(procs, procedureId)
       IN  IF IndexRejected(procedure.reviewDates, reviewIndex)
           THEN [store |-> procs,
                 response |-> InvalidIndex("mark_reviewed", procedureId, reviewIndex)]
           ELSE IF ElementAt(procedure.reviewDates, reviewIndex) = <<>>
           THEN [store |-> procs,
                 response |-> Raised("mark_reviewed", procedureId, reviewIndex)]
           ELSE LET marked == MarkProcedure(procedure, reviewIndex)
                IN  [store |-> MapSet(procs, procedureId, marked),
                     response |-> [NoResponse EXCEPT
                        !.op = "mark_reviewed",
                        !.procedureId = procedureId,
                        !.reviewIndex = reviewIndex,
                        !.success = TRUE,
                        !.wasCompleted = procedure.reviewDates[reviewIndex + 1].completed,
                        !.completedReview = <<marked.reviewDates[reviewIndex + 1].label>>,
                        !.nextReview = FindNextReview(marked.reviewDates, reviewIndex)]]

\* ------------------------------------------------------------- delay_review
\* The date string one day after `date`, as delay_review computes it.
DelayedDate(zone, date) == IsoDate(AddLocalDays(zone, ParseDate(date), 1))

\* Variant: the review is rebuilt from its new date and loses its label.
DelayProcedure_DropsLabel(zone, procedure, reviewIndex) ==
  [procedure EXCEPT !.reviewDates[reviewIndex + 1] =
     [date      |-> DelayedDate(zone, procedure.reviewDates[reviewIndex + 1].date),
      label     |-> "",
      completed |-> procedure.reviewDates[reviewIndex + 1].completed]]

\* Variant: a review is not moved onto or past the date of the next one.
DelayProcedure_KeepsOrder(zone, procedure, reviewIndex) ==
  IF /\ reviewIndex + 2 <= Len(procedure.reviewDates)
     /\ DelayedDate(zone, procedure.reviewDates[reviewIndex + 1].date)
          = procedure.reviewDates[reviewIndex + 2].date
  THEN procedure
  ELSE [procedure EXCEPT !.reviewDates[reviewIndex + 1].date =
                            DelayedDate(zone, procedure.reviewDates[reviewIndex + 1].date)]

\* The assignment of delay_review.
DelayProcedure(zone, procedure, reviewIndex) ==
  [procedure EXCEPT !.reviewDates[reviewIndex + 1].date =
                       DelayedDate(zone, procedure.reviewDates[reviewIndex + 1].date)]

delay_review(procs, zone, procedureId, reviewIndex) ==
  IF ~MapHas(procs, procedureId)
  THEN [store |-> procs,
        response |-> NotFound("delay_review", procedureId, reviewIndex)]
  ELSE LET procedure == MapGet(procs, procedureId)
       IN  IF ElementAt(procedure.reviewDates, reviewIndex) = <<>>
           THEN [store |-> procs,
                 response |-> Raised("delay_review", procedureId, reviewIndex)]
           ELSE LET delayed == DelayProcedure(zone, procedure, reviewIndex)
                IN  [store |-> MapSet(procs, procedureId, delayed),
                     response |-> [NoResponse EXCEPT
                        !.op = "delay_review",
                        !.procedureId = procedureId,
                        !.reviewIndex = reviewIndex,
                        !.success = TRUE,
                        !.newDate = <<delayed.reviewDates[reviewIndex + 1].date>>]]

\* ------------------------------------------------------------ JS strings
\* A string is a TLA+ string; Len, \o and SubSeq act on its characters.

\* s.charAt(i) for a 0-based i ("" outside the string).
CharAt(s, i) == IF i >= 0 /\ i < Len(s) THEN SubSeq(s, i + 1, i + 1) ELSE ""

\* s.substring(i, j) for 0 <= i <= j: the characters at 0-based indices
\* i .. j - 1, with both ends clamped to the string.
Substring(s, i, j) ==
  LET from == IF i > Len(s) THEN Len(s) ELSE i
      to   == IF j > Len(s) THEN Len(s) ELSE j
  IN  IF from >= to THEN "" ELSE SubSeq(s, from + 1, to)

\* s.slice(i) for i >= 0: the characters from 0-based index i on.
Slice(s, i) == Substring(s, i, Len(s))

LowerLetters == "abcdefghijklmnopqrstuvwxyz"
UpperLetters == "ABCDEFGHIJKLMNOPQRSTUVWXYZ"
DigitChars == {"0", "1", "2", "3", "4", "5", "6", "7", "8", "9"}

\* 1-based position of character c in `alphabet`, 0 when it is not in it.
PositionIn(c, alphabet) ==
  IF \E i \in 1..Len(alphabet) : SubSeq(alphabet, i, i) = c
  THEN CHOOSE i \in 1..Len(alphabet) : SubSeq(alphabet, i, i) = c
  ELSE 0

LowerChar(c) ==
  IF PositionIn(c, UpperLetters) # 0
  THEN CharAt(LowerLetters, PositionIn(c, UpperLetters) - 1) ELSE c

UpperChar(c) ==
  IF PositionIn(c, LowerLetters) # 0
  THEN CharAt(UpperLetters, PositionIn(c, LowerLetters) - 1) ELSE c

\* s.toLowerCase()
RECURSIVE toLowerCase(_)
toLowerCase(s) ==
  IF Len(s) <= 1 THEN LowerChar(s)
  ELSE toLowerCase(Substring(s, 0, Len(s) \div 2)) \o toLowerCase(Slice(s, Len(s) \div 2))

\* \s, \w and \d of a regular expression
IsSpace(c) == c \in {" ", "\n", "\t", "\r"}
IsDigit(c) == c \in DigitChars
IsWordChar(c) ==
  PositionIn(c, LowerLetters) # 0 \/ PositionIn(c, UpperLetters) # 0
    \/ IsDigit(c) \/ c = "_"

\* \b at 0-based position i of s: exactly one of the characters around the
\* position is a word character.
WordBoundary(s, i) == IsWordChar(CharAt(s, i - 1)) # IsWordChar(CharAt(s, i))

\* s.trim()
RECURSIVE TrimStart(_)
TrimStart(s) == IF s # "" /\ IsSpace(CharAt(s, 0)) THEN TrimStart(Slice(s, 1)) ELSE s
RECURSIVE TrimEnd(_)
TrimEnd(s) ==
  IF s # "" /\ IsSpace(CharAt(s, Len(s) - 1))
  THEN TrimEnd(Substring(s, 0, Len(s) - 1)) ELSE s
Trim(s) == TrimEnd(TrimStart(s))

\* Character classes of the regular expressions and separators, by name.
InClass(c, class) ==
  CASE class = "space"    -> IsSpace(c)
    [] class = "digit"    -> IsDigit(c)
    [] class = "sentence" -> c \in {".", "!", "?"}
    [] class = "newline"  -> c = "\n"

\* The least element of a set of integers, `none` when the set is empty.
LeastOr(S, none) == IF S = {} THEN none ELSE CHOOSE p \in S : \A q \in S : p <= q

\* The number of leading characters of s that are in the class.
SpanOf(s, class) ==
  LeastOr({i \in 0..(Len(s) - 1) : ~InClass(CharAt(s, i), class)}, Len(s))

\* The position of the first character of s that is in the class, Len(s)
\* when there is none.
IndexOfClass(s, class) ==
  LeastOr({i \in 0..(Len(s) - 1) : InClass(CharAt(s, i), class)}, Len(s))

\* s.split(separator) where the separator is a maximal run of characters of
\* a class (runs = TRUE, as /[.!?]+/) or a single such character (runs =
\* FALSE, as '\n'): the pieces between separators, empty ones included.
\* SplitAt is given the position of the first separator.
RECURSIVE Split(_, _, _)
SplitAt(s, separator, runs, end) ==
  IF end = Len(s) THEN <<s>>
  ELSE <<Substring(s, 0, end)>>
         \o Split(Slice(s, end + (IF runs THEN SpanOf(Slice(s, end), separator) ELSE 1)),
                  separator, runs)
Split(s, separator, runs) == SplitAt(s, separator, runs, IndexOfClass(s, separator))

\* content.split(/[.!?]+/) and content.split('\n')
SplitSentences(s) == Split(s, "sentence", TRUE)
SplitLines(s) == Split(s, "newline", FALSE)

\* array.filter(s => s.trim()): the pieces that are not blank.
NotBlank(s) == Trim(s) # ""

\* s.includes(t)
Includes(s, t) ==
  \E i \in 0..(Len(s) - Len(t)) : Substring(s, i, i + Len(t)) = t

\* ---------------------------------------------------------- actionPatterns
\* The alternatives of the three action patterns, in source order; the
\* alternative step\s+\d+ is written "step#".
actionPatterns ==
  << <<"click", "select", "enter", "type", "navigate", "open", "create", "set",
       "configure", "add", "remove", "update", "install", "download", "upload",
       "save", "delete", "copy", "paste", "cut", "move", "drag", "drop",
       "scroll", "zoom", "rotate", "resize">>,
     <<"step#", "first", "then", "next", "after", "finally", "begin", "start",
       "proceed", "continue">>,
     <<"should", "must", "need to", "have to", "required to", "make sure",
       "ensure", "verify", "check", "confirm">> >>

\* \d+ at 0-based position p: the end of the digits, -1 when there is none.
DigitsEnd(lower, p) ==
  IF IsDigit(CharAt(lower, p)) THEN p + SpanOf(Slice(lower, p), "digit") ELSE -1

\* \s+\d+ at 0-based position p: the end of the digits, -1 when no match.
SpacesDigitsEnd(lower, p) ==
  IF IsSpace(CharAt(lower, p))
  THEN DigitsEnd(lower, p + SpanOf(Slice(lower, p), "space")) ELSE -1

\* The 0-based end (exclusive) of a match of one alternative at 0-based
\* position p of the lower-cased string, -1 when it does not match there.
AlternativeEnd(alternative, lower, p) ==
  IF alternative = "step#"
  THEN IF Substring(lower, p, p + 4) = "step" THEN SpacesDigitsEnd(lower, p + 4) ELSE -1
  ELSE IF Substring(lower, p, p + Len(alternative)) = alternative
       THEN p + Len(alternative) ELSE -1

\* A match from p to e stands between two word boundaries.
Bounded(lower, p, e) == e # -1 /\ WordBoundary(lower, p) /\ WordBoundary(lower, e)

\* The end of the match of alternative number a at p, -1 when a is 0.
EndOfAlternative(alternatives, a, lower, p) ==
  IF a = 0 THEN -1 ELSE AlternativeEnd(alternatives[a], lower, p)

\* The end of the match of \b(alternatives)\b at position p, -1 when none:
\* the first alternative in order that matches between two word boundaries.
PatternEnd(alternatives, lower, p) ==
  EndOfAlternative(alternatives,
    LeastOr({a \in 1..Len(alternatives) :
               Bounded(lower, p, AlternativeEnd(alternatives[a], lower, p))}, 0),
    lower, p)

\* What test returns and leaves in lastIndex when the leftmost match starts
\* at `start` (-1: no match).
TestResult(alternatives, lower, start) ==
  IF start = -1 THEN [matched |-> FALSE, lastIndex |-> 0]
  ELSE [matched |-> TRUE, lastIndex |-> PatternEnd(alternatives, lower, start)]

\* pattern.test(str) of a /gi pattern whose lastIndex is `lastIndex`: the
\* search starts at lastIndex; a match leaves lastIndex at its end, a
\* failure resets it to 0.
SearchFrom(alternatives, lower, lastIndex) ==
  TestResult(alternatives, lower,
    LeastOr({p \in lastIndex..(Len(lower) - 1) :
               PatternEnd(alternatives, lower, p) # -1}, -1))
PatternTest(alternatives, str, lastIndex) ==
  SearchFrom(alternatives, toLowerCase(str), lastIndex)

\* The lastIndex values of the three patterns before any test.
FreshPatterns == <<0, 0, 0>>

\* The loop `for (const pattern of actionPatterns)` over patterns k, k + 1,
\* ...: whether one of them matched, and the lastIndex values it leaves.
\* AfterTest is given the result r of testing pattern k.
RECURSIVE TestPatterns(_, _, _)
AfterTest(trimmed, lastIndex, k, r) ==
  IF r.matched \/ k = Len(actionPatterns)
  THEN [isActionable |-> r.matched,
        lastIndex    |-> [lastIndex EXCEPT ![k] = r.lastIndex]]
  ELSE TestPatterns(trimmed, [lastIndex EXCEPT ![k] = r.lastIndex], k + 1)
TestPatterns(trimmed, lastIndex, k) ==
  AfterTest(trimmed, lastIndex, k, PatternTest(actionPatterns[k], trimmed, lastIndex[k]))

\* The loop over the sentences from position n on: the candidate steps and
\* the lastIndex values at its end. AfterSentence is given the outcome t of
\* the pattern loop on sentence n.
RECURSIVE ScanSentences(_, _, _, _)
AfterSentence(sentences, n, steps, t) ==
  ScanSentences(sentences, n + 1, t.lastIndex,
    IF t.isActionable
    THEN Append(steps, [order |-> Len(steps) + 1, description |-> Trim(sentences[n])])
    ELSE steps)
ScanSentences(sentences, n, lastIndex, steps) ==
  IF n > Len(sentences) THEN [steps |-> steps, lastIndex |-> lastIndex]
  ELSE AfterSentence(sentences, n, steps, TestPatterns(Trim(sentences[n]), lastIndex, 1))

\* A lenient extraction that wants more than 20 characters of a line.
RECURSIVE FallbackSteps_Strict(_, _, _)
FallbackSteps_Strict(lines, n, steps) ==
  IF n > Len(lines) THEN steps
  ELSE FallbackSteps_Strict(lines, n + 1,
         IF Len(Trim(lines[n])) > 20
         THEN Append(steps, [order |-> Len(steps) + 1, description |-> Trim(lines[n])])
         ELSE steps)

\* The lenient extraction: the lines longer than 10 characters, from line n.
RECURSIVE FallbackSteps(_, _, _)
FallbackSteps(lines, n, steps) ==
  IF n > Len(lines) THEN steps
  ELSE FallbackSteps(lines, n + 1,
         IF Len(Trim(lines[n])) > 10
         THEN Append(steps, [order |-> Len(steps) + 1, description |-> Trim(lines[n])])
         ELSE steps)

\* ------------------------------------------------------ applyRefinementRules
\* The verbs of the two expressions of applyRefinementRules, in source order.
RefinementVerbs ==
  <<"click", "select", "enter", "type", "navigate", "open", "create", "set",
    "configure", "add", "remove", "update", "install", "download", "upload",
    "save", "delete", "copy", "paste", "cut", "move", "drag", "drop",
    "scroll", "zoom", "rotate", "resize", "go", "press", "choose", "fill">>

\* Some verb stands at 0-based position p of the lower-cased string.
VerbAt(lower, p) ==
  \E v \in 1..Len(RefinementVerbs) :
    Substring(lower, p, p + Len(RefinementVerbs[v])) = RefinementVerbs[v]

\* Variant: the match starts at the last verb of the string.
VerbMatch_Last(lower) ==
  0 - LeastOr({0 - p : p \in {q \in 0..(Len(lower) - 1) :
                                VerbAt(lower, q) /\ ~Includes(Slice(lower, q), ".")}}, 1)

\* refined.match(/(verbs)[^.]*$/i): the 0-based start of the match, -1 when
\* there is none (the leftmost verb after which the string has no '.').
\* VerbMatch is given the lower-cased string.
VerbMatch(lower) ==
  LeastOr({p \in 0..(Len(lower) - 1) :
             VerbAt(lower, p) /\ ~Includes(Slice(lower, p), ".")}, -1)
ActionMatch(refined) == VerbMatch(toLowerCase(refined))

\* s.charAt(0).toUpperCase() + s.slice(1)
Capitalize(s) == UpperChar(CharAt(s, 0)) \o Slice(s, 1)

\* The first rule: a description that does not begin with a verb is cut
\* down to the match of ActionMatch, which starts at `start`.
LeadWithVerb(refined, start) ==
  IF ~VerbAt(toLowerCase(refined), 0) /\ start # -1
  THEN Capitalize(Slice(refined, start)) ELSE refined

\* The leading phrases of the replace calls: their alternatives in order.
FillerPhrases == <<"you should", "you need to", "you must", "make sure to", "be sure to">>

\* s without its leading white space, and without one leading comma.
DropSpaces(s) == Slice(s, SpanOf(s, "space"))
DropComma(s) == IF CharAt(s, 0) = "," THEN Slice(s, 1) ELSE s

\* Phrase number a followed by white space begins the lower-cased string.
FillerAt(lower, a) ==
  /\ Substring(lower, 0, Len(FillerPhrases[a])) = FillerPhrases[a]
  /\ IsSpace(CharAt(lower, Len(FillerPhrases[a])))

\* The string without phrase number a and the white space after it; a = 0:
\* no phrase to remove.
DropFiller(refined, a) ==
  IF a = 0 THEN refined ELSE DropSpaces(Slice(refined, Len(FillerPhrases[a])))

\* refined.replace(/^(you should|...)\s+/i, '')
StripFiller(refined) ==
  DropFiller(refined,
    LeastOr({a \in 1..Len(FillerPhrases) : FillerAt(toLowerCase(refined), a)}, 0))

\* The string without "step ", the digits that end at `end` (-1: no
\* digits), the ':' or '.' after them and the white space that follows.
DropStepNumber(refined, end) ==
  IF end # -1 /\ CharAt(refined, end) \in {":", "."}
  THEN DropSpaces(Slice(refined, end + 1)) ELSE refined

\* refined.replace(/^(step \d+[:.]\s*)/i, '')
StripStepNumber(refined) ==
  IF Substring(toLowerCase(refined), 0, 5) = "step "
  THEN DropStepNumber(refined, DigitsEnd(refined, 5)) ELSE refined

\* refined.replace(/^(word,?\s*)/i, '')
StripWord(refined, word) ==
  IF Substring(toLowerCase(refined), 0, Len(word)) = word
  THEN DropSpaces(DropComma(Slice(refined, Len(word)))) ELSE refined

\* if (!/[.!?]$/.test(refined)) refined += '.'
EndSentence(refined) ==
  IF CharAt(refined, Len(refined) - 1) \in {".", "!", "?"}
  THEN refined ELSE refined \o "."

\* description.trim() with the first rule applied.
VerbFirst(trimmed) == LeadWithVerb(trimmed, ActionMatch(trimmed))

applyRefinementRules(description) ==
  EndSentence(
    StripWord(
      StripWord(
        StripWord(
          StripStepNumber(StripFiller(Capitalize(VerbFirst(Trim(description))))),
          "next"),
        "then"),
      "after that"))

\* ------------------------------------------------------------ isRedundantStep
\* s.replace(/[^a-z0-9\s]/g, '')
RECURSIVE KeepAlnumSpace(_)
KeepAlnumSpace(s) ==
  IF Len(s) <= 1
  THEN IF PositionIn(s, LowerLetters) # 0 \/ IsDigit(s) \/ IsSpace(s) THEN s ELSE ""
  ELSE KeepAlnumSpace(Substring(s, 0, Len(s) \div 2))
         \o KeepAlnumSpace(Slice(s, Len(s) \div 2))

\* description.toLowerCase().replace(/[^a-z0-9\s]/g, '').trim()
Normalize(description) == Trim(KeepAlnumSpace(toLowerCase(description)))

\* s.split(/\s+/)
SplitWords(s) == Split(s, "space", TRUE)

\* words1.filter(word => words2.includes(word)).length
Overlap(words1, words2) ==
  Cardinality({i \in 1..Len(words1) : \E j \in 1..Len(words2) : words2[j] = words1[i]})

\* overlap / Math.max(words1.length, words2.length) > 0.7
Similar(words1, words2) ==
  10 * Overlap(words1, words2)
    > 7 * (IF Len(words1) > Len(words2) THEN Len(words1) ELSE Len(words2))

\* The tests of the loop body on two normalized descriptions.
Redundant(normalized, existing) ==
  \/ normalized = existing
  \/ Includes(normalized, existing)
  \/ Includes(existing, normalized)
  \/ Similar(SplitWords(normalized), SplitWords(existing))

isRedundantStep(description, existingSteps) ==
  \E n \in 1..Len(existingSteps) :
    Redundant(Normalize(description), Normalize(existingSteps[n].description))

\* ---------------------------------------------------------------- refineSteps
\* The prompt refinement runs under when the caller gives none.
DEFAULT_REFINEMENT_PROMPT == "Analyze the following extracted procedural steps"

\* Variant: a loop body that does not look for redundant steps.
KeepStep_NoDedup(description, refinedSteps) ==
  IF Len(description) > 5
  THEN Append(refinedSteps, [order |-> Len(refinedSteps) + 1,
                             description |-> description])
  ELSE refinedSteps

\* The body of the loop of refineSteps on a refined description.
KeepStep(description, refinedSteps) ==
  IF Len(description) > 5 /\ ~isRedundantStep(description, refinedSteps)
  THEN Append(refinedSteps, [order |-> Len(refinedSteps) + 1,
                             description |-> description])
  ELSE refinedSteps

\* Variant: a kept step keeps the order its candidate had.
RECURSIVE RefineLoop_KeepsOrder(_, _, _)
RefineLoop_KeepsOrder(steps, n, refinedSteps) ==
  IF n > Len(steps) THEN refinedSteps
  ELSE RefineLoop_KeepsOrder(steps, n + 1,
         IF KeepStep(applyRefinementRules(steps[n].description), refinedSteps)
              = refinedSteps
         THEN refinedSteps
         ELSE Append(refinedSteps,
                     [order       |-> steps[n].order,
                      description |-> applyRefinementRules(steps[n].description)]))

\* The loop of refineSteps from step n on; the prompt is not looked at.
RECURSIVE RefineLoop(_, _, _)
RefineLoop(steps, n, refinedSteps) ==
  IF n > Len(steps) THEN refinedSteps
  ELSE RefineLoop(steps, n + 1,
                  KeepStep(applyRefinementRules(steps[n].description), refinedSteps))

\* Variant: the refined list is returned even when it is empty.
RefinedOrOriginal_NoFallback(refinedSteps, steps) == refinedSteps

\* return refinedSteps.length > 0 ? refinedSteps : steps
RefinedOrOriginal(refinedSteps, steps) ==
  IF Len(refinedSteps) > 0 THEN refinedSteps ELSE steps

\* Variant: the refinement rules are applied under the default prompt only.
refineSteps_PromptDriven(steps, refinementPrompt) ==
  IF refinementPrompt = DEFAULT_REFINEMENT_PROMPT
  THEN RefinedOrOriginal(RefineLoop(steps, 1, <<>>), steps)
  ELSE steps

refineSteps(steps, refinementPrompt) ==
  RefinedOrOriginal(RefineLoop(steps, 1, <<>>), steps)

\* ------------------------------------------------------ extractProcedureSteps

\* refinementPrompt || DEFAULT_REFINEMENT_PROMPT, where refinementPrompt is
\* <<>> when the argument is absent and <<text>> otherwise.
PromptToUse(refinementPrompt) ==
  IF refinementPrompt = <<>> \/ refinementPrompt = <<"">>
  THEN DEFAULT_REFINEMENT_PROMPT ELSE refinementPrompt[1]

\* Variant: when the scan found nothing, the whole content is one step.
CandidateSteps_WholeContent(content, scanned) ==
  IF Len(scanned) = 0
  THEN <<[order |-> 1, description |-> content]>>
  ELSE scanned

\* The steps of the sentence scan, or of the lines when it found none.
CandidateSteps(content, scanned) ==
  IF Len(scanned) = 0
  THEN FallbackSteps(SelectSeq(SplitLines(content), NotBlank), 1, <<>>)
  ELSE scanned

\* if (steps.length > 0) steps = refineSteps(steps, promptToUse)
RefineIfAny(steps, promptToUse) ==
  IF Len(steps) > 0 THEN refineSteps(steps, promptToUse) ELSE steps

\* The part of extractProcedureSteps after the sentence scan.
AfterScan(content, refinementPrompt, scanned) ==
  [steps     |-> RefineIfAny(CandidateSteps(content, scanned.steps),
                             PromptToUse(refinementPrompt)),
   lastIndex |-> scanned.lastIndex]

\* The result is the steps returned and the lastIndex values the patterns
\* are left with.
extractProcedureSteps(content, refinementPrompt, lastIndex) ==
  AfterScan(content, refinementPrompt,
    ScanSentences(SelectSeq(SplitSentences(content), NotBlank), 1, lastIndex, <<>>))

\* The extract_skills handler: the body it returns. ExtractResponse is
\* given what extractProcedureSteps returned.
NoExtraction ==
  [op |-> "none", content |-> "", refinementPrompt |-> <<>>,
   success |-> FALSE, steps |-> <<>>, count |-> 0]

ExtractResponse(content, refinementPrompt, r) ==
  [lastIndex |-> r.lastIndex,
   response  |-> [op |-> "extract_skills", content |-> content,
                  refinementPrompt |-> refinementPrompt,
                  success |-> TRUE, steps |-> r.steps, count |-> Len(r.steps)]]

extract_skills(content, refinementPrompt, lastIndex) ==
  ExtractResponse(content, refinementPrompt,
                  extractProcedureSteps(content, refinementPrompt, lastIndex))

\* ------------------------------------------------------------ state machine
VARIABLES
  procedures,  \* the Map of saved procedures, in insertion order
  clock,       \* the host clock (what Date.now() and new Date() read)
  tz,          \* the host's time zone
  response,    \* what the latest tool invocation produced
  calls,       \* number of tool invocations so far
  marked,      \* history: the <<id, index>> pairs mark_reviewed succeeded on
  lastIndex,   \* the lastIndex of each of the three actionPatterns
  extraction,  \* what the latest extract_skills invocation produced
  extractions  \* number of extract_skills invocations so far

vars == <<procedures, clock, tz, response, calls, marked,
          lastIndex, extraction, extractions>>

\* What the extractor reads and writes: nothing of it is touched by the
\* store's handlers, and the extractor touches nothing of the store.
extractor == <<lastIndex, extraction, extractions>>

\* Clock readings: the first one, and the later ones two hours apart.
BaseClock == UtcHour(2024, 3, 9, 22)
ClockReadings == {BaseClock + 2 * k : k \in 0..MaxTicks}

\* Arguments the tools are invoked with.
Titles == {"Tie shoes"}
StepsInputs ==
  { <<[order |-> 1, description |-> "Cross the laces."],
      [order |-> 2, description |-> "Pull both ends tight."]>> }
\* Procedure ids a client can send: those it was given, and one it was not.
ProcedureIdInputs(procs) == {procs[k].id : k \in 1..Len(procs)} \cup {"unknown"}
ReviewIndexInputs == {-1, 0, 1, 17, 18}
DateInputs == {<<2024, 3, 10>>, <<2024, 3, 11>>}
ContentInputs ==
  { "", "hello", "Click it",
    "Click the Save button. This is just a note.",
    "Water boils at 100 C\nok",
    "Open the file. Open the file now. Add. Step 2: check it",
    "Add! Cut. Add",
    "Open the red door. Then open the red door again.",
    "Click a b c d e f g h i. Then click a b c d e f x y z",
    "You should click Save. Then, press Enter! next open the file and then save the file",
    "It resets v1.2 and saves and opens it" }
RefinementPromptInputs == {<<>>, <<"Keep every step short">>}

Init ==
  /\ procedures = <<>>
  /\ clock = BaseClock
  /\ tz \in TimeZones
  /\ response = NoResponse
  /\ calls = 0
  /\ marked = {}
  /\ lastIndex = FreshPatterns
  /\ extraction = NoExtraction
  /\ extractions = 0

\* Time passes between two invocations.
Tick ==
  /\ \E t \in ClockReadings : t > clock /\ clock' = t
  /\ UNCHANGED <<procedures, tz, response, calls, marked>>
  /\ UNCHANGED extractor

SaveProcedure ==
  /\ calls < MaxCalls
  /\ \E title \in Titles, steps \in StepsInputs, algorithm \in Algorithms :
       \E r \in {save_procedure(procedures, tz, clock, title, steps, algorithm)} :
           procedures' = r.store /\ response' = r.response
  /\ calls' = calls + 1
  /\ UNCHANGED <<clock, tz, marked>>
  /\ UNCHANGED extractor

GetReviewQueue ==
  /\ calls < MaxCalls
  /\ \E date \in DateInputs :
       \E r \in {get_review_queue(procedures, date)} :
           procedures' = r.store /\ response' = r.response
  /\ calls' = calls + 1
  /\ UNCHANGED <<clock, tz, marked>>
  /\ UNCHANGED extractor

MarkReviewed ==
  /\ calls < MaxCalls
  /\ \E procedureId \in ProcedureIdInputs(procedures), reviewIndex \in ReviewIndexInputs :
       \E r \in {mark_reviewed(procedures, procedureId, reviewIndex)} :
           /\ procedures' = r.store /\ response' = r.response
           /\ marked' = IF r.response.success
                        THEN marked \cup {<<procedureId, reviewIndex>>}
                        ELSE marked
  /\ calls' = calls + 1
  /\ UNCHANGED <<clock, tz>>
  /\ UNCHANGED extractor

DelayReview ==
  /\ calls < MaxCalls
  /\ \E procedureId \in ProcedureIdInputs(procedures), reviewIndex \in ReviewIndexInputs :
       \E r \in {delay_review(procedures, tz, procedureId, reviewIndex)} :
           procedures' = r.store /\ response' = r.response
  /\ calls' = calls + 1
  /\ UNCHANGED <<clock, tz, marked>>
  /\ UNCHANGED extractor

Next ==
  \/ Tick
  \/ SaveProcedure
  \/ GetReviewQueue
  \/ MarkReviewed
  \/ DelayReview

Spec == Init /\ [][Next]_vars

\* save_procedure with any steps argument its input schema accepts: dense
\* orders, a gap, a repeated order, orders that do not start at 1.
StepsArguments ==
  StepsInputs \cup
  { <<[order |-> 1, description |-> "Cross the laces."],
      [order |-> 3, description |-> "Pull both ends tight."]>>,
    <<[order |-> 2, description |-> "Cross the laces."],
      [order |-> 2, description |-> "Pull both ends tight."]>>,
    <<[order |-> 0, description |-> "Cross the laces."]>> }

SaveAnySteps ==
  /\ calls < MaxCalls
  /\ \E title \in Titles, steps \in StepsArguments, algorithm \in Algorithms :
       \E r \in {save_procedure(procedures, tz, clock, title, steps, algorithm)} :
           procedures' = r.store /\ response' = r.response
  /\ calls' = calls + 1
  /\ UNCHANGED <<clock, tz, marked>>
  /\ UNCHANGED extractor

NextSave ==
  \/ Tick
  \/ SaveAnySteps

SpecSave == Init /\ [][NextSave]_vars

\* The extract_skills tool. It shares no state with the other tools, so
\* its behaviours are explored on their own.
ExtractSkills ==
  /\ extractions < MaxExtracts
  /\ \E content \in ContentInputs, refinementPrompt \in RefinementPromptInputs :
       \E r \in {extract_skills(content, refinementPrompt, lastIndex)} :
           lastIndex' = r.lastIndex /\ extraction' = r.response
  /\ extractions' = extractions + 1
  /\ UNCHANGED <<procedures, clock, tz, response, calls, marked>>

NextExtract == ExtractSkills

\* The extractor reads no date: one host time zone is enough.
InitExtract == Init /\ tz = "UTC"

SpecExtract == InitExtract /\ [][NextExtract]_vars

\* =================================================================== claims
\* The step is an invocation of tool `op`.
Invoked(op) == calls' = calls + 1 /\ response'.op = op

\* The index lies in [0, reviewSchedule.length) of the procedure.
InRange(procedure, reviewIndex) ==
  reviewIndex >= 0 /\ reviewIndex < Len(procedure.reviewDates)

\* The calendar date one day after a date, by the calendar alone.
NextCalendarDay(date) ==
  CivilFromDays(DaysFromCivil(date[1], date[2], date[3]) + 1)

\* The highest index whose review is completed, plus one; 0 when none is.
HighestCompleted(procedure) ==
  LET done == {i \in 0..(Len(procedure.reviewDates) - 1) :
                 procedure.reviewDates[i + 1].completed}
  IN  IF done = {} THEN 0
      ELSE (CHOOSE i \in done : \A j \in done : j <= i) + 1

\* C1: mark_reviewed on a known procedure with an index outside
\* [0, length) returns the "Invalid review index" failure instead of
\* raising, and leaves the store as it was.
C1_MarkInvalidIndex ==
  [][(/\ Invoked("mark_reviewed")
      /\ MapHas(procedures, response'.procedureId)
      /\ ~InRange(MapGet(procedures, response'.procedureId), response'.reviewIndex))
     => (/\ ~response'.raised
         /\ ~response'.success
         /\ response'.error = "Invalid review index"
         /\ procedures' = procedures)]_vars

\* C2: delay_review on a known procedure with an index outside [0, length)
\* returns the "Invalid review index" failure instead of raising, and
\* leaves every date and completed flag as it was.
C2_DelayInvalidIndex ==
  [][(/\ Invoked("delay_review")
      /\ MapHas(procedures, response'.procedureId)
      /\ ~InRange(MapGet(procedures, response'.procedureId), response'.reviewIndex))
     => (/\ ~response'.raised
         /\ ~response'.success
         /\ response'.error = "Invalid review index"
         /\ procedures' = procedures)]_vars

\* C3: mark_reviewed and delay_review with an id that is not in the store
\* return the "Procedure not found" failure (no exception) and the store
\* is identical before and after.
C3_NotFound ==
  [][((Invoked("mark_reviewed") \/ Invoked("delay_review"))
      /\ ~MapHas(procedures, response'.procedureId))
     => (/\ ~response'.raised
         /\ ~response'.success
         /\ response'.error = "Procedure not found"
         /\ procedures' = procedures)]_vars

\* C3 witness: an unknown id was rejected while the store held a procedure
\* with a completed review.
C3_Witness ==
  /\ response.op \in {"mark_reviewed", "delay_review"}
  /\ response.error = "Procedure not found"
  /\ ~MapHas(procedures, response.procedureId)
  /\ \E k \in 1..Len(procedures) : procedures[k].currentStep > 0

\* C4: once a stored procedure's review is completed it stays completed in
\* every later state, whatever tool is invoked.
C4_CompletedNeverReverts ==
  [][\A k \in 1..Len(procedures) :
       \A i \in 1..Len(procedures[k].reviewDates) :
         procedures[k].reviewDates[i].completed
           => (/\ MapHas(procedures', procedures[k].id)
               /\ MapGet(procedures', procedures[k].id).reviewDates[i].completed)]_vars

\* C5: a completed review is terminal: no later invocation changes its
\* date or its completed flag.
C5_CompletedIsTerminal ==
  [][\A k \in 1..Len(procedures) :
       \A i \in 1..Len(procedures[k].reviewDates) :
         procedures[k].reviewDates[i].completed
           => (/\ MapHas(procedures', procedures[k].id)
               /\ MapGet(procedures', procedures[k].id).reviewDates[i]
                    = procedures[k].reviewDates[i])]_vars

\* C6 as claimed: mark_reviewed on an already completed review succeeds
\* and leaves the whole store (currentStep included) unchanged.
C6_RemarkChangesNothing ==
  [][(/\ Invoked("mark_reviewed")
      /\ MapHas(procedures, response'.procedureId)
      /\ InRange(MapGet(procedures, response'.procedureId), response'.reviewIndex)
      /\ MapGet(procedures, response'.procedureId)
           .reviewDates[response'.reviewIndex + 1].completed)
     => (response'.success /\ ~response'.raised /\ procedures' = procedures)]_vars

\* C6 amended: mark_reviewed on an already completed review succeeds,
\* leaves every review (date, label, completed) of every procedure
\* unchanged, and sets the procedure's currentStep to reviewIndex + 1.
C6_RemarkKeepsReviews ==
  [][(/\ Invoked("mark_reviewed")
      /\ MapHas(procedures, response'.procedureId)
      /\ InRange(MapGet(procedures, response'.procedureId), response'.reviewIndex)
      /\ MapGet(procedures, response'.procedureId)
           .reviewDates[response'.reviewIndex + 1].completed)
     => (/\ response'.success /\ ~response'.raised
         /\ Len(procedures') = Len(procedures)
         /\ \A k \in 1..Len(procedures) :
              /\ procedures'[k].reviewDates = procedures[k].reviewDates
              /\ procedures'[k].currentStep =
                   IF procedures[k].id = response'.procedureId
                   THEN response'.reviewIndex + 1
                   ELSE procedures[k].currentStep)]_vars

\* C6 witness: an already completed review was marked again, and
\* currentStep now names it although a later review is completed too.
C6_Witness ==
  /\ response.op = "mark_reviewed" /\ response.success /\ response.wasCompleted
  /\ LET procedure == MapGet(procedures, response.procedureId)
     IN  /\ procedure.currentStep = response.reviewIndex + 1
         /\ \E i \in 1..Len(procedure.reviewDates) :
              i > response.reviewIndex + 1 /\ procedure.reviewDates[i].completed

\* C7 as claimed: currentStep is the highest completed index + 1, and 0
\* when nothing is completed.
C7_CurrentStepIsHighest ==
  \A k \in 1..Len(procedures) :
    procedures[k].currentStep = HighestCompleted(procedures[k])

\* C7 amended: currentStep is the index of the latest successful
\* mark_reviewed on the procedure since it was saved, plus one, and 0 when
\* none happened: a successful mark sets it to reviewIndex + 1, a save
\* stores 0, and no other invocation changes it.
C7_CurrentStepIsLastMarked ==
  [][\A k \in 1..Len(procedures') :
       procedures'[k].currentStep =
         IF Invoked("mark_reviewed") /\ response'.success
            /\ response'.procedureId = procedures'[k].id
         THEN response'.reviewIndex + 1
         ELSE IF Invoked("save_procedure") /\ response'.procedureId = procedures'[k].id
         THEN 0
         ELSE procedures[k].currentStep]_vars

\* C7 witness: reviews were marked out of order, so currentStep is below
\* the highest completed index + 1.
C7_Witness ==
  \E k \in 1..Len(procedures) :
    /\ procedures[k].currentStep > 0
    /\ procedures[k].currentStep < HighestCompleted(procedures[k])

\* C8: a successful mark_reviewed(id, i) returns as nextReview the date and
\* label of the first review after i that is pending in the store it
\* leaves, and null exactly when every review after i is completed; a
\* pending review before i is never the answer.
C8_NextReviewIsPositional ==
  (response.op = "mark_reviewed" /\ response.success) =>
    LET reviewDates == MapGet(procedures, response.procedureId).reviewDates
        i == response.reviewIndex
    IN  /\ (response.nextReview = <<>>)
              <=> (\A j \in (i + 1)..(Len(reviewDates) - 1) : reviewDates[j + 1].completed)
        /\ response.nextReview # <<>> =>
             \E j \in (i + 1)..(Len(reviewDates) - 1) :
               /\ ~reviewDates[j + 1].completed
               /\ \A h \in (i + 1)..(j - 1) : reviewDates[h + 1].completed
               /\ response.nextReview[1].date = reviewDates[j + 1].date
               /\ response.nextReview[1].label = reviewDates[j + 1].label

\* C8 witness: review 1 was marked while review 0 is still pending (with
\* an earlier date) and a next review was returned.
C8_Witness ==
  /\ response.op = "mark_reviewed" /\ response.success
  /\ response.reviewIndex = 1
  /\ response.nextReview # <<>>
  /\ LET reviewDates == MapGet(procedures, response.procedureId).reviewDates
     IN  /\ ~reviewDates[1].completed
         /\ ParseDate(reviewDates[1].date) < ParseDate(response.nextReview[1].date)

\* C9: a successful delay_review sets the review's date to the calendar day
\* after its previous date, returns that date, and leaves completed as it
\* was.
C9_DelayAddsOneDay ==
  [][(Invoked("delay_review") /\ response'.success) =>
       LET before == MapGet(procedures, response'.procedureId)
                       .reviewDates[response'.reviewIndex + 1]
           after  == MapGet(procedures', response'.procedureId)
                       .reviewDates[response'.reviewIndex + 1]
       IN  /\ after.date = NextCalendarDay(before.date)
           /\ response'.newDate = <<after.date>>
           /\ after.completed = before.completed]_vars

\* C10: every save_procedure adds exactly one record under an id no stored
\* procedure has, and leaves every stored procedure as it was.
C10_SaveAddsFreshRecord ==
  [][Invoked("save_procedure") =>
       /\ ~MapHas(procedures, response'.procedureId)
       /\ Len(procedures') = Len(procedures) + 1
       /\ \A k \in 1..Len(procedures) : procedures'[k] = procedures[k]]_vars

\* ----------------------------------------------------------------------
\* The calendar date n days after a date, by the calendar alone.
AddCalendarDays(date, n) ==
  CivilFromDays(DaysFromCivil(date[1], date[2], date[3]) + n)

\* The start date of a procedure saved at time value `now`: the calendar
\* date of its creation timestamp.
StartDate(now) == IsoDate(now)

\* The dates of a schedule, in order.
DatesOf(reviewDates) == [k \in 1..Len(reviewDates) |-> reviewDates[k].date]

\* The items of a queue that belong to one procedure.
ItemsOf(items, procedureId) ==
  LET Mine(item) == item.procedureId = procedureId
  IN  SelectSeq(items, Mine)

\* C11: the schedule a save produces has as many reviews as the
\* algorithm's template (18) and its dates are strictly increasing with
\* the index.
C11_ScheduleStrictlyIncreasing ==
  [][Invoked("save_procedure") =>
       LET procedure == MapGet(procedures', response'.procedureId)
           reviewDates == procedure.reviewDates
       IN  /\ Len(reviewDates) = Len(algorithmSchedules[procedure.algorithm])
           /\ Len(reviewDates) = 18
           /\ \A i, j \in 1..Len(reviewDates) :
                i < j => ParseDate(reviewDates[i].date) < ParseDate(reviewDates[j].date)]_vars

\* C12: a save with start date S stores, at each index i, the date
\* S + (dayOffset_i - 1) days with the template's label and completed =
\* FALSE, and returns S as firstReviewDate.
C12_ScheduleFollowsOffsets ==
  [][Invoked("save_procedure") =>
       LET procedure == MapGet(procedures', response'.procedureId)
           schedule == algorithmSchedules[procedure.algorithm]
       IN  /\ Len(procedure.reviewDates) = Len(schedule)
           /\ \A k \in 1..Len(schedule) :
                procedure.reviewDates[k] =
                  [date      |-> AddCalendarDays(StartDate(clock), schedule[k].day - 1),
                   label     |-> schedule[k].label,
                   completed |-> FALSE]
           /\ response'.firstReviewDate = <<StartDate(clock)>>]_vars

\* C13: every stored schedule has its template's length and labels, and no
\* mark_reviewed, delay_review or get_review_queue changes a schedule's
\* length or labels, or a procedure's algorithm, title or steps.
C13_ScheduleShapeIsFixed ==
  /\ [](\A k \in 1..Len(procedures) :
          LET schedule == algorithmSchedules[procedures[k].algorithm]
          IN  /\ Len(procedures[k].reviewDates) = Len(schedule)
              /\ \A i \in 1..Len(schedule) :
                   procedures[k].reviewDates[i].label = schedule[i].label)
  /\ [][(Invoked("mark_reviewed") \/ Invoked("delay_review")
           \/ Invoked("get_review_queue")) =>
          /\ Len(procedures') = Len(procedures)
          /\ \A k \in 1..Len(procedures) :
               /\ procedures'[k].id = procedures[k].id
               /\ procedures'[k].algorithm = procedures[k].algorithm
               /\ procedures'[k].title = procedures[k].title
               /\ procedures'[k].steps = procedures[k].steps
               /\ Len(procedures'[k].reviewDates) = Len(procedures[k].reviewDates)
               /\ \A i \in 1..Len(procedures[k].reviewDates) :
                    procedures'[k].reviewDates[i].label
                      = procedures[k].reviewDates[i].label]_vars

\* C13 witness: a review was delayed in a procedure that also has a
\* marked review.
C13_Witness ==
  /\ response.op = "delay_review" /\ response.success
  /\ MapGet(procedures, response.procedureId).currentStep > 0

\* C14: get_review_queue(date) returns an item (procedureId, reviewIndex)
\* exactly for the stored reviews dated `date` that are not completed, each
\* once; it succeeds also when there is none, and itemCount is their number.
C14_QueueIsDueAndPending ==
  response.op = "get_review_queue" =>
    LET due == {pi \in {<<procedures[k].id, i>> :
                          k \in 1..Len(procedures), i \in 0..17} :
                  LET procedure == MapGet(procedures, pi[1])
                  IN  /\ pi[2] < Len(procedure.reviewDates)
                      /\ procedure.reviewDates[pi[2] + 1].date = response.date
                      /\ ~procedure.reviewDates[pi[2] + 1].completed}
    IN  /\ response.success /\ ~response.raised
        /\ {<<response.items[n].procedureId, response.items[n].reviewIndex>> :
              n \in 1..Len(response.items)} = due
        /\ Len(response.items) = Cardinality(due)
        /\ response.itemCount = Cardinality(due)

\* C14 witness: a queue was returned with an item in it while a completed
\* review of the same date was left out.
C14_Witness ==
  /\ response.op = "get_review_queue"
  /\ response.itemCount > 0
  /\ \E k \in 1..Len(procedures) :
       \E i \in 1..Len(procedures[k].reviewDates) :
         /\ procedures[k].reviewDates[i].date = response.date
         /\ procedures[k].reviewDates[i].completed

\* C15: right after a save with start date S, for every index i the queue
\* for S + (dayOffset_i - 1) holds exactly one item of the new procedure,
\* and that item has reviewIndex i.
C15_QueueAfterSave ==
  [][Invoked("save_procedure") =>
       LET procedure == MapGet(procedures', response'.procedureId)
           schedule == algorithmSchedules[procedure.algorithm]
       IN  \A i \in 0..(Len(schedule) - 1) :
             LET date == AddCalendarDays(StartDate(clock), schedule[i + 1].day - 1)
                 mine == ItemsOf(get_review_queue(procedures', date).response.items,
                                 procedure.id)
             IN  Len(mine) = 1 /\ mine[1].reviewIndex = i]_vars

C17_DateArithmeticIsCalendar ==
  /\ \A algorithm \in Algorithms :
       DatesOf(calculateReviewDates(tz, clock, algorithm))
         = [k \in 1..Len(algorithmSchedules[algorithm]) |->
              AddCalendarDays(StartDate(clock), algorithmSchedules[algorithm][k].day - 1)]
  /\ \A k \in 1..Len(procedures) :
       \A i \in 1..Len(procedures[k].reviewDates) :
         DelayedDate(tz, procedures[k].reviewDates[i].date)
           = AddCalendarDays(procedures[k].reviewDates[i].date, 1)

\* ------------------------------------------------------------- extraction
\* The step is an invocation of extract_skills.
Extracted == extractions' = extractions + 1

\* Some line of the content is longer than 10 characters once trimmed.
HasLongLine(content) ==
  \E n \in 1..Len(SplitLines(content)) : Len(Trim(SplitLines(content)[n])) > 10

\* C19 (as stated): for every non-empty content string, extract(content)
\* returns a non-empty sequence of steps.
C19_NonEmptyContentGivesSteps ==
  (extraction.op = "extract_skills" /\ extraction.content # "")
    => Len(extraction.steps) > 0

\* C19 (amended): for every content that has a line longer than 10
\* characters after trimming, extract(content) returns a non-empty sequence
\* of steps.
C19_LongLineGivesSteps ==
  (extraction.op = "extract_skills" /\ HasLongLine(extraction.content))
    => Len(extraction.steps) > 0

\* The steps came from the lenient extraction: no sentence of the content
\* is a step, a long line is.
C19_Witness ==
  /\ extraction.op = "extract_skills"
  /\ extraction.content = "Water boils at 100 C\nok"
  /\ extraction.steps = <<[order |-> 1, description |-> "Water boils at 100 C."]>>

\* C20: extract is a pure function of its content: two extract calls with
\* the same content (and the same refinement prompt) return the same steps,
\* whatever was extracted before.
C20_ExtractIsPure ==
  [][(/\ Extracted
      /\ extraction.op = "extract_skills"
      /\ extraction'.content = extraction.content
      /\ extraction'.refinementPrompt = extraction.refinementPrompt)
     => extraction'.steps = extraction.steps]_vars

\* The sentence units of a content, and the candidate steps the sentence
\* scan builds from them when the patterns' lastIndex values are `indexes`.
SentenceUnits(content) == SelectSeq(SplitSentences(content), NotBlank)
ScannedCandidates(content, indexes) ==
  ScanSentences(SentenceUnits(content), 1, indexes, <<>>).steps

\* The candidate list refinement is applied to: the scanned candidates, or
\* the long lines when there are none.
CandidatesOf(content, indexes) ==
  CandidateSteps(content, ScannedCandidates(content, indexes))

\* The unit matches at least one of the three action patterns.
MatchesSomePattern(unit) ==
  \E k \in 1..Len(actionPatterns) :
    PatternTest(actionPatterns[k], Trim(unit), 0).matched

\* The descriptions of a list of steps, in order.
DescriptionsOf(steps) == [k \in 1..Len(steps) |-> steps[k].description]

\* The trimmed units that match some pattern, in order.
MatchingUnits(content) ==
  LET matching == SelectSeq(SentenceUnits(content), MatchesSomePattern)
  IN  [k \in 1..Len(matching) |-> Trim(matching[k])]

\* C21: within one extract call, the candidate list built from the
\* sentence units is exactly the units that match at least one action
\* pattern, in their original order.
C21_CandidatesAreMatchingUnits ==
  [][Extracted =>
       DescriptionsOf(ScannedCandidates(extraction'.content, lastIndex))
         = MatchingUnits(extraction'.content)]_vars

\* The words of a step's normalized description, as a sequence and as a set.
WordsOf(step) == SplitWords(Normalize(step.description))
TokensOf(step) == {WordsOf(step)[k] : k \in 1..Len(WordsOf(step))}

\* The larger of two naturals.
Larger(a, b) == IF a > b THEN a ELSE b

\* C22 (as stated): in the output of extract, no two steps have a
\* token-overlap ratio (shared tokens / larger token-set size, on the
\* normalized descriptions) of 70% or more.
C22_NoTwoStepsOverlap ==
  extraction.op = "extract_skills" =>
    \A i, j \in 1..Len(extraction.steps) :
      i < j =>
        10 * Cardinality(TokensOf(extraction.steps[i]) \cap TokensOf(extraction.steps[j]))
          < 7 * Larger(Cardinality(TokensOf(extraction.steps[i])),
                       Cardinality(TokensOf(extraction.steps[j])))

\* The number of words of the later step that occur in the earlier one.
WordsFoundIn(later, earlier) ==
  Cardinality({k \in 1..Len(later) : \E m \in 1..Len(earlier) : earlier[m] = later[k]})

\* C22 (amended): when refinement keeps at least one step, no step of the
\* output has more than 70% of word overlap with an earlier step of the
\* output, the overlap being the number of words of the later step found in
\* the earlier one over the larger of the two word counts.
C22_RefinedStepsDoNotOverlap ==
  [][(Extracted
       /\ Len(RefineLoop(CandidatesOf(extraction'.content, lastIndex), 1, <<>>)) > 0)
     => \A i, j \in 1..Len(extraction'.steps) :
          i < j =>
            10 * WordsFoundIn(WordsOf(extraction'.steps[j]), WordsOf(extraction'.steps[i]))
              <= 7 * Larger(Len(WordsOf(extraction'.steps[i])),
                            Len(WordsOf(extraction'.steps[j])))]_vars

\* Two candidates were refined and the second one was dropped as redundant.
C22_Witness ==
  /\ extraction.op = "extract_skills"
  /\ extraction.content = "Open the red door. Then open the red door again."
  /\ extraction.steps = <<[order |-> 1, description |-> "Open the red door."]>>

\* C23: extract never throws for any text input (every invocation returns
\* the success body with its steps and their count), and extract("")
\* returns the empty sequence.
C23_NeverThrowsEmptyForEmpty ==
  extraction.op = "extract_skills" =>
    /\ extraction.success
    /\ extraction.count = Len(extraction.steps)
    /\ (extraction.content = "" => extraction.steps = <<>>)

\* The empty content was extracted.
C23_Witness ==
  /\ extraction.op = "extract_skills"
  /\ extraction.content = ""
  /\ extraction.count = 0

C25_RefinementNeverEmpties ==
  [][Extracted =>
       \E candidates \in {CandidatesOf(extraction'.content, lastIndex)} :
         Len(candidates) > 0 =>
           /\ Len(extraction'.steps) > 0
           /\ (RefineLoop(candidates, 1, <<>>) = <<>>
                 => extraction'.steps = candidates)]_vars

\* Both candidates were eliminated (their refined descriptions are too
\* short) and came back as they were.
C25_Witness ==
  /\ extraction.op = "extract_skills"
  /\ extraction.content = "Add! Cut. Add"
  /\ extraction.steps = <<[order |-> 1, description |-> "Add"],
                          [order |-> 2, description |-> "Add"]>>

\* ------------------------------------------------------------------ store
\* Item a comes before item b in procedure iteration (insertion) order,
\* then in increasing reviewIndex.
QueuedBefore(procs, a, b) ==
  \/ MapIndex(procs, a.procedureId) < MapIndex(procs, b.procedureId)
  \/ /\ a.procedureId = b.procedureId
     /\ a.reviewIndex < b.reviewIndex

\* C26: getReviewQueue does not modify the store; its items appear in
\* procedure insertion order and, within one procedure, in increasing
\* reviewIndex; two consecutive calls with the same date return the same
\* list.
C26_QueueReadsInStableOrder ==
  [][Invoked("get_review_queue") =>
       /\ procedures' = procedures
       /\ \A i, j \in 1..Len(response'.items) :
            i < j => QueuedBefore(procedures, response'.items[i], response'.items[j])
       /\ (response.op = "get_review_queue" /\ response.date = response'.date
             => response'.items = response.items)]_vars

\* A queue with items of two procedures.
C26_Witness ==
  /\ response.op = "get_review_queue"
  /\ Len(response.items) >= 2
  /\ response.items[1].procedureId # response.items[2].procedureId

\* The day number of a calendar date.
DayNumber(date) == DaysFromCivil(date[1], date[2], date[3])

\* C27: delayReview does not preserve strictly increasing dates. A
\* successful delayReview(p, i) stores the delayed date at index i and
\* leaves every other date where it was, also when the new date is equal to
\* or later than the date at i + 1; and getReviewQueue lists every pending
\* event of its date, so it can return two items of one procedure.
C27_DelayDoesNotRestoreOrder ==
  [][/\ (Invoked("delay_review") /\ response'.success) =>
          DatesOf(MapGet(procedures', response'.procedureId).reviewDates)
            = [DatesOf(MapGet(procedures, response'.procedureId).reviewDates)
                 EXCEPT ![response'.reviewIndex + 1] = DelayedDate(tz, @)]
     /\ Invoked("get_review_queue") =>
          \A k \in 1..Len(procedures) :
            \A n \in 1..Len(procedures[k].reviewDates) :
              (/\ procedures[k].reviewDates[n].date = response'.date
               /\ ~procedures[k].reviewDates[n].completed)
                => \E m \in 1..Len(response'.items) :
                     /\ response'.items[m].procedureId = procedures[k].id
                     /\ response'.items[m].reviewIndex = n - 1]_vars

\* On a host in UTC, where a saved schedule is strictly increasing: a
\* delayed event is not earlier than the next one, and the queue of that
\* date holds two items of the procedure.
C27_Witness ==
  /\ tz = "UTC"
  /\ response.op = "get_review_queue"
  /\ \E k \in 1..Len(procedures) :
       /\ \E n \in 1..(Len(procedures[k].reviewDates) - 1) :
            /\ DayNumber(procedures[k].reviewDates[n].date)
                 >= DayNumber(procedures[k].reviewDates[n + 1].date)
            /\ procedures[k].reviewDates[n].date = response.date
       /\ Len(ItemsOf(response.items, procedures[k].id)) >= 2

\* C28: in every reachable state, the steps of every stored procedure have
\* order values that are exactly 1..N in sequence, whatever steps argument
\* saveProcedure was given.
C28_StoredStepsAreDense ==
  \A k \in 1..Len(procedures) :
    \A n \in 1..Len(procedures[k].steps) : procedures[k].steps[n].order = n

\* ------------------------------------------------------------- extraction
\* C29: for every content, the sequence returned by extract has order
\* values exactly 1..N in output position (the k-th returned step has
\* order k), on every path.
C29_OutputOrdersAreDense ==
  extraction.op = "extract_skills" =>
    \A k \in 1..Len(extraction.steps) : extraction.steps[k].order = k

\* Three candidates, the second of which refinement dropped: the third is
\* returned second.
C29_Witness ==
  /\ extraction.op = "extract_skills"
  /\ extraction.content = "Open the file. Open the file now. Add. Step 2: check it"
  /\ Len(extraction.steps) = 2
  /\ extraction.steps[2].description = "check it."

\* ------------------------------------------------------------------ store
\* The step is a successful invocation of tool `op`.
Succeeded(op) == Invoked(op) /\ response'.success

\* Event n (1-based) of the procedure has the same date and completed flag
\* before and after.
EventKept(before, after, n) ==
  /\ after.reviewDates[n].date = before.reviewDates[n].date
  /\ after.reviewDates[n].completed = before.reviewDates[n].completed

\* C30: a successful markReviewed(p, i) or delayReview(p, i) changes
\* nothing outside its target: every other procedure in the store is
\* unchanged, and within p every event at an index other than i keeps its
\* date and completed flag; markReviewed also leaves the date of event i
\* unchanged.
C30_OnlyTheTargetChanges ==
  [][(Succeeded("mark_reviewed") \/ Succeeded("delay_review")) =>
       /\ Len(procedures') = Len(procedures)
       /\ \A k \in 1..Len(procedures) :
            IF procedures[k].id # response'.procedureId
            THEN procedures'[k] = procedures[k]
            ELSE /\ procedures'[k].id = procedures[k].id
                 /\ Len(procedures'[k].reviewDates) = Len(procedures[k].reviewDates)
                 /\ \A n \in 1..Len(procedures[k].reviewDates) :
                      n # response'.reviewIndex + 1
                        => EventKept(procedures[k], procedures'[k], n)
                 /\ response'.op = "mark_reviewed" =>
                      procedures'[k].reviewDates[response'.reviewIndex + 1].date
                        = procedures[k].reviewDates[response'.reviewIndex + 1].date]_vars

\* Review 1 of one of two stored procedures was marked while its review 0
\* is pending.
C30_Witness ==
  /\ response.op = "mark_reviewed"
  /\ response.success
  /\ response.reviewIndex = 1
  /\ Len(procedures) = 2
  /\ ~MapGet(procedures, response.procedureId).reviewDates[1].completed
  /\ MapGet(procedures, response.procedureId).reviewDates[2].completed

\* The queue of `date` holds the item of review reviewIndex (0-based) of
\* the procedure.
Queued(procs, date, procedureId, reviewIndex) ==
  \E m \in 1..Len(get_review_queue(procs, date).response.items) :
    /\ get_review_queue(procs, date).response.items[m].procedureId = procedureId
    /\ get_review_queue(procs, date).response.items[m].reviewIndex = reviewIndex

\* C31: after a successful delayReview(p, i) on a pending event whose date
\* was d, getReviewQueue(d + 1 day) contains the item (p, i) and
\* getReviewQueue(d) no longer contains it.
C31_DelayMovesTheQueueItem ==
  [][Succeeded("delay_review") =>
       \A event \in {MapGet(procedures, response'.procedureId)
                       .reviewDates[response'.reviewIndex + 1]} :
         ~event.completed =>
           /\ Queued(procedures', NextCalendarDay(event.date),
                     response'.procedureId, response'.reviewIndex)
           /\ ~Queued(procedures', event.date,
                      response'.procedureId, response'.reviewIndex)]_vars

\* ------------------------------------------------------------- extraction
\* The 0-based positions of a lower-cased text at which an action verb of
\* the refinement rules stands.
VerbPositions(lower) == {p \in 0..(Len(lower) - 1) : VerbAt(lower, p)}

\* The largest and the smallest member of a non-empty set of positions.
Last(positions) == CHOOSE p \in positions : \A q \in positions : q <= p
First(positions) == CHOOSE p \in positions : \A q \in positions : p <= q

\* The text, whose verbs stand at `positions`, does not start with an
\* action verb and has several embedded.
SeveralEmbeddedVerbs(positions) ==
  0 \notin positions /\ Cardinality(positions) >= 2

\* The positions after which the text has no '.'.
OpenPositions(text, positions) ==
  {p \in positions : ~Includes(Slice(text, p), ".")}

\* The clause of a text from position p on, as a description: first letter
\* in upper case, terminal punctuation ensured.
ClauseFrom(text, p) == EndSentence(Capitalize(Slice(text, p)))

\* Refinement kept every candidate: the k-th returned step is the refined
\* k-th candidate.
EveryCandidateKept(candidates, steps) ==
  Len(steps) = Len(candidates) /\ steps # candidates

\* C32 (as stated): in the refinement pass, when a candidate's text does
\* not start with a recognized action verb and contains several embedded
\* action verbs, the description is replaced by the clause that starts at
\* the last embedded action verb.
C32_ClauseStartsAtLastVerb ==
  [][Extracted =>
       \E candidates \in {CandidatesOf(extraction'.content, lastIndex)} :
         EveryCandidateKept(candidates, extraction'.steps) =>
           \A k \in 1..Len(candidates) :
             \E positions \in {VerbPositions(toLowerCase(candidates[k].description))} :
               SeveralEmbeddedVerbs(positions) =>
                 extraction'.steps[k].description
                   = ClauseFrom(candidates[k].description, Last(positions))]_vars

\* C32 (amended): when a candidate's text does not start with a recognized
\* action verb and contains several embedded action verbs, at least one of
\* them with no '.' after it, the description is replaced by the clause
\* that starts at the first embedded action verb that has no '.' after it
\* (first letter in upper case, terminal punctuation ensured).
C32_ClauseStartsAtFirstOpenVerb ==
  [][Extracted =>
       \E candidates \in {CandidatesOf(extraction'.content, lastIndex)} :
         EveryCandidateKept(candidates, extraction'.steps) =>
           \A k \in 1..Len(candidates) :
             \E positions \in {VerbPositions(toLowerCase(candidates[k].description))} :
               \E open \in {OpenPositions(candidates[k].description, positions)} :
                 (SeveralEmbeddedVerbs(positions) /\ open # {}) =>
                   extraction'.steps[k].description
                     = ClauseFrom(candidates[k].description, First(open))]_vars

\* A line with three embedded verbs, the first of them before a '.', was
\* cut down to the clause of the second.
C32_Witness ==
  /\ extraction.op = "extract_skills"
  /\ extraction.content = "It resets v1.2 and saves and opens it"
  /\ extraction.steps = <<[order |-> 1, description |-> "Saves and opens it."]>>

\* C33: every description produced by the refinement pass begins with an
\* upper-case letter whenever its first character is a letter, including
\* descriptions from which a leading filler phrase ("you should", "next,",
\* "then,", "after that,", "step N:") was stripped.
C33_DescriptionsStartUpperCase ==
  [][(Extracted
       /\ extraction'.steps # CandidatesOf(extraction'.content, lastIndex))
     => \A k \in 1..Len(extraction'.steps) :
          PositionIn(CharAt(extraction'.steps[k].description, 0), LowerLetters) = 0]_vars

====
